---- MODULE Spec2Model ----
(***************************************************************************)
(* 64drive USB tool (src/main.c, src/64drive.h): the command codec         *)
(* (device_send_cmd, swap_endian), the version handshake                   *)
(* (device_get_version), the chunked transfers (device_upload,             *)
(* device_download), the CIC selector (device_set_cic, reached through the *)
(* -c option of main), and the option loop of main with the session setup  *)
(* (setup_or_die, setup_device, device_open, device_init).                 *)
(*                                                                         *)
(* Spec calls the device_* functions with arguments of every kind;         *)
(* SpecMain runs main on a command line, which calls them as its options   *)
(* say.                                                                    *)
(*                                                                         *)
(* A uint32_t is a 4-tuple of bytes, most significant byte first, so that  *)
(* values up to 2^32-1 and the byte order of a store are representable.    *)
(* The link (libftdi) is the environment: every ftdi_write_data and        *)
(* ftdi_read_data result is a nondeterministic input of the step that      *)
(* makes the call.                                                         *)
(***************************************************************************)
EXTENDS Integers, Sequences, FiniteSets, TLC

VARIABLES
    hostLE,     \* TRUE: the host stores a uint32_t least significant byte first
    variant,    \* device->variant[0..2] (64drive.h:69)
    is_setup,   \* static int is_setup of setup_or_die (main.c:490)
    pc,         \* position of the process
    op,         \* the device_* call under way or last finished
    arg,        \* the inputs of that call
    size,       \* int64_t size, after the "entire file" default is resolved
    chunkSize,  \* uint32_t chunkSize of device_upload / device_download
    offset,     \* uint32_t offset, advanced by the loop
    readPos,    \* int64_t readPos
    tries,      \* int tries (retry loop of a transfer, mismatch count of the handshake)
    nSent,      \* int nSent (device_upload) / int nRecv (device_download)
    filePos,    \* bytes consumed from the source file / written to the sink file
    response,   \* uint8_t response[64]: the bytes the handshake reads
    ret,        \* return value of the call, once status is no longer "running"
    status,     \* "none", "running", "completed" (normal end), "aborted" (early return)
    link,       \* what the call did on the link so far (observed traffic)
    reported,   \* readPos printed by the "failed (after N bytes)" diagnostic, -1 if none
    nCalls,     \* number of calls started in this run
    main        \* the locals of main, the option being handled, and what the
                \* process did so far (main.c:498-503)

vars == <<main, hostLE, variant, is_setup, pc, op, arg, size, chunkSize, offset, readPos,
          tries, nSent, filePos, response, ret, status, link, reported, nCalls>>

----------------------------------------------------------------------------
(* Program constants                                                       *)

DEV_MAGIC == 1430537558        \* 0x55444556
DEV_CMD_LOADRAM == 32          \* 0x20
DEV_CMD_DUMPRAM == 48          \* 0x30
DEV_CMD_SETCIC == 114          \* 0x72
DEV_CMD_GETVER == 128          \* 0x80
DEV_CMD_PI_RD_32 == 144        \* 0x90
BANK_CARTROM == 1
BANK_EEPROM16 == 6
CIC_LAST == 8
BANK_LAST == 7
EXIT_SUCCESS == 0
EXIT_FAILURE == 1
TxBufWords == 8                \* sizeof(tx_buf) / sizeof(uint32_t) = 32 / 4
RespLen == 64                  \* sizeof(response)
GetVerTries == 4               \* if(++tries >= 4)
RawTries == 5                  \* for(tries=0; tries<5; tries++)
ChunkUnit == 131072            \* 128 * 1024
DefaultDumpSize == 268435456   \* 256 * 1024 * 1024
Mib2 == 2097152                \* 2 * 1024 * 1024
Mib16 == 16777216              \* 16 * 1024 * 1024

(* Bounds of the model                                                     *)
MaxCalls == 2                  \* calls per run: the handshake, then one operation
MaxParams == 8                 \* nParams ranges over 0..MaxParams
MaxPartials == 2               \* short (partial) raw transfers the link gives per call
MaxOpts == 3                   \* options on the command line of a run of main
MaxBadChunks == 1              \* chunks of a download of main the link may fail in

(* Inputs                                                                  *)
\* "A  ", "B  ", zeros, and a first byte with its top bit set
Variants == {<<65, 32, 32>>, <<66, 32, 32>>, <<0, 0, 0>>, <<200, 32, 32>>}
MagicBytes == <<85, 68, 69, 86>>                                 \* "UDEV"
Word1s == {MagicBytes, <<86, 69, 68, 85>>, <<0, 0, 0, 0>>}
Responses == [b : Variants, w : Word1s]   \* response[0..2] and response[4..7]
SizeVals == {-1, 0, 100, 524288, 1048576, Mib2, Mib2 + 1, 3145728, Mib16, Mib16 + 1}
\* (offset, bank) of a transfer
TargetVals == {<<0, BANK_CARTROM>>, <<1048576, BANK_EEPROM16>>}
FileLens == {0, 100, 3145728}
CmdVals == {DEV_CMD_PI_RD_32, DEV_CMD_LOADRAM}
CicNums == {6102, 103, 3, 0, 9999}
\* arguments of the options -b, -o and -s on the command line of main
BankArgs == {"eeprom", "rom", "7", "x", "0"}
OffsetArgs == {1048576}
SizeArgs == {100}
\* a parameter array: 0x10000000 and 0x12345678 alternating, starting by pattern p
ParamSeq(p, n) == [i \in 1..n |-> IF (i + p) % 2 = 0 THEN <<16, 0, 0, 0>> ELSE <<18, 52, 86, 120>>]

----------------------------------------------------------------------------
(* uint32_t arithmetic on 4-byte tuples, most significant byte first       *)

RECURSIVE BitAnd(_, _)
BitAnd(a, b) ==
    IF a = 0 \/ b = 0 THEN 0
    ELSE 2 * BitAnd(a \div 2, b \div 2) + (IF a % 2 = 1 /\ b % 2 = 1 THEN 1 ELSE 0)

RECURSIVE BitOr(_, _)
BitOr(a, b) ==
    IF a = 0 THEN b
    ELSE IF b = 0 THEN a
    ELSE 2 * BitOr(a \div 2, b \div 2) + (IF a % 2 = 1 \/ b % 2 = 1 THEN 1 ELSE 0)

\* the uint32_t with value n, 0 <= n < 2^31
U32(n) == <<(n \div 16777216) % 256, (n \div 65536) % 256, (n \div 256) % 256, n % 256>>

And32(a, b) == <<BitAnd(a[1], b[1]), BitAnd(a[2], b[2]), BitAnd(a[3], b[3]), BitAnd(a[4], b[4])>>
Or32(a, b) == <<BitOr(a[1], b[1]), BitOr(a[2], b[2]), BitOr(a[3], b[3]), BitOr(a[4], b[4])>>
Shl8(v) == <<v[2], v[3], v[4], 0>>
Shl24(v) == <<v[4], 0, 0, 0>>
Shr8(v) == <<0, v[1], v[2], v[3]>>
Shr24(v) == <<0, 0, 0, v[1]>>

\* a + n modulo 2^32, for an int n with 0 <= n < 2^31 (offset += nSent)
U32Add(a, n) ==
    LET lo == a[3] * 256 + a[4] + (n % 65536)
        hi == a[1] * 256 + a[2] + (n \div 65536) + (lo \div 65536)
    IN  <<(hi \div 256) % 256, hi % 256, (lo \div 256) % 256, lo % 256>>

\* the four bytes a uint32_t store leaves in memory, in address order
StoreU32(le, v) == IF le THEN <<v[4], v[3], v[2], v[1]>> ELSE v
\* the uint32_t a load reads from four bytes of memory
LoadU32(le, b) == IF le THEN <<b[4], b[3], b[2], b[1]>> ELSE b

swap_endian(val) ==
    Or32(Or32(Shl24(val), And32(Shl8(val), <<0, 255, 0, 0>>)),
         Or32(And32(Shr8(val), <<0, 0, 255, 0>>), Shr24(val)))

----------------------------------------------------------------------------
(* Command codec: device_send_cmd                                          *)

RECURSIVE ParamBytes(_, _, _)
\* paramBuf[i] = swap_endian(params[i]) for the first n parameters
ParamBytes(le, params, n) ==
    IF n = 0 THEN <<>>
    ELSE ParamBytes(le, params, n - 1) \o StoreU32(le, swap_endian(params[n]))

\* the first 4 + 4*nParams bytes of tx_buf
TxFrame(le, cmd, nParams, params) == <<cmd, 67, 77, 68>> \o ParamBytes(le, params, nParams)

\* results ftdi_write_data can give for a write of len bytes, ftdi_read_data
\* for a read of len bytes
WriteResults(len) == {-1, 0, len}
ReadResults(len) == {-1, 0, len}

NoLink == [writes |-> 0, reads |-> 0, chunkRaws |-> 0, partials |-> 0, moved |-> 0,
           frame |-> <<>>, cmd |-> 0, params |-> <<>>, allFull |-> TRUE,
           magicRead |-> FALSE, cmdFailed |-> FALSE]

\* the bound check off by one: nParams > 8 in place of nParams >= 8
device_send_cmd_gt(le, lk, cmd, nParams, params, respLen, w, r) ==
    IF nParams > TxBufWords
    THEN [ret |-> -1, link |-> lk, read |-> FALSE]
    ELSE LET frame == TxFrame(le, cmd, nParams, params)
             lk1 == [lk EXCEPT !.writes = @ + 1, !.frame = frame, !.cmd = cmd,
                               !.params = SubSeq(params, 1, nParams)]
         IN  IF w <= 0 THEN [ret |-> w, link |-> lk1, read |-> FALSE]
             ELSE IF respLen > 0
                  THEN [ret |-> r, link |-> [lk1 EXCEPT !.reads = @ + 1], read |-> r > 0]
                  ELSE [ret |-> w, link |-> lk1, read |-> FALSE]

\* device_send_cmd(cmd, nParams, params, resp, respLen) with link results w
\* (the write) and r (the read): its return value and its traffic
device_send_cmd(le, lk, cmd, nParams, params, respLen, w, r) ==
    IF nParams >= TxBufWords
    THEN [ret |-> -1, link |-> lk, read |-> FALSE]
    ELSE LET frame == TxFrame(le, cmd, nParams, params)
             lk1 == [lk EXCEPT !.writes = @ + 1, !.frame = frame, !.cmd = cmd,
                               !.params = SubSeq(params, 1, nParams)]
         IN  IF w <= 0 THEN [ret |-> w, link |-> lk1, read |-> FALSE]
             ELSE IF respLen > 0
                  THEN [ret |-> r, link |-> [lk1 EXCEPT !.reads = @ + 1], read |-> r > 0]
                  ELSE [ret |-> w, link |-> lk1, read |-> FALSE]

----------------------------------------------------------------------------
(* The process: a caller of the device_* functions. After the handshake   *)
(* of setup_device has succeeded it calls device_upload, device_download, *)
(* device_get_version and the -c option with arguments drawn from the     *)
(* input sets above; device_send_cmd is also called on its own, with      *)
(* every parameter count. A call runs step by step, one link operation    *)
(* per step, and ends in pc = "return", where its locals can still be     *)
(* inspected; ReturnToCaller then drops them.                             *)

NoArg == [size |-> 0, offset |-> 0, bank |-> 0, fileLen |-> 0, cmd |-> 0,
          nParams |-> 0, params |-> <<>>, respLen |-> 0, num |-> 0]
NoResponse == [b |-> <<0, 0, 0>>, w |-> <<0, 0, 0, 0>>]
\* main is not running: the device_* functions are called on their own
NoMain == [bank |-> 0, fileSize |-> 0, fileOffset |-> 0]

Init ==
    /\ hostLE \in BOOLEAN
    /\ variant \in Variants      \* sixtyfourDrive device; is not initialised
    /\ is_setup = 0
    /\ pc = "idle"
    /\ op = "none"
    /\ arg = NoArg
    /\ size = 0
    /\ chunkSize = 0
    /\ offset = U32(0)
    /\ readPos = 0
    /\ tries = 0
    /\ nSent = 0
    /\ filePos = 0
    /\ response = NoResponse
    /\ ret = 0
    /\ status = "none"
    /\ link = NoLink
    /\ reported = -1
    /\ nCalls = 0
    /\ main = NoMain

\* a call begins: its locals and the record of its traffic are fresh
Enter(name, a) ==
    /\ pc = "idle"
    /\ nCalls < MaxCalls
    /\ nCalls' = nCalls + 1
    /\ op' = name
    /\ arg' = a

\* return v from the call under way
Leave(v, st) ==
    /\ ret' = v
    /\ status' = st
    /\ pc' = "return"

\* the caller takes the return value: setup_device fails on a handshake result
\* <= 0 and setup_or_die then exits; every other caller in main ignores it
ReturnToCaller ==
    /\ pc = "return"
    /\ IF op = "get_version" /\ is_setup = 0
       THEN IF ret <= 0
            THEN pc' = "exit" /\ is_setup' = is_setup
            ELSE pc' = "idle" /\ is_setup' = 1
       ELSE pc' = "idle" /\ is_setup' = is_setup
    /\ size' = 0 /\ chunkSize' = 0 /\ offset' = U32(0) /\ readPos' = 0
    /\ tries' = 0 /\ nSent' = 0 /\ filePos' = 0 /\ response' = NoResponse
    /\ link' = NoLink /\ arg' = NoArg /\ op' = "none"
    /\ ret' = 0 /\ status' = "none" /\ reported' = -1
    /\ UNCHANGED <<main, hostLE, variant, nCalls>>

----------------------------------------------------------------------------
(* device_send_cmd called with arbitrary arguments                         *)

CallSendCmd ==
    \E c \in CmdVals, n \in 0..MaxParams, p \in 0..1, rl \in {0, RespLen} :
    \E w \in WriteResults(4 + 4 * n), r \in ReadResults(rl) :
        LET ps == ParamSeq(p, n)
            res == device_send_cmd(hostLE, NoLink, c, n, ps, rl, w, r)
        IN  /\ Enter("send_cmd", [NoArg EXCEPT !.cmd = c, !.nParams = n, !.params = ps,
                                               !.respLen = rl])
            /\ link' = res.link
            /\ Leave(res.ret, IF n >= TxBufWords THEN "aborted" ELSE "completed")
            /\ UNCHANGED <<main, hostLE, variant, is_setup, size, chunkSize, offset, readPos,
                           tries, nSent, filePos, response, reported>>

----------------------------------------------------------------------------
(* Handshake: device_get_version                                           *)

\* uint32_t magic = swap_endian(data[1])
Magic(le, resp) == swap_endian(LoadU32(le, resp.w))

\* (response[0] << 24) | (response[1] << 16) | (response[2] << 8) as a 32-bit int
PackVariant(b) ==
    (IF b[1] >= 128 THEN b[1] - 256 ELSE b[1]) * 16777216 + b[2] * 65536 + b[3] * 256

\* one GETVER cycle: the send, the 64-byte read, and what the buffer then holds
GetVerCycle(lk, w, r, resp) ==
    LET res == device_send_cmd(hostLE, lk, DEV_CMD_GETVER, 0, <<>>, RespLen, w, r)
    IN  [ret |-> res.ret,
         response |-> IF res.read THEN resp ELSE response,
         link |-> [res.link EXCEPT !.magicRead = @ \/ (res.read /\ resp.w = MagicBytes)]]

\* the mismatch count never ends the loop
GvGiveUp_never(t) == FALSE

\* if(++tries >= 4), read after the increment (main.c:164)
GvGiveUp(t) == t >= GetVerTries

CallGetVersion ==
    /\ Enter("get_version", NoArg)
    /\ pc' = "gv_probe"
    /\ status' = "running"
    /\ UNCHANGED <<main, hostLE, variant, is_setup, size, chunkSize, offset, readPos, tries,
                   nSent, filePos, response, ret, link, reported>>

\* the cycle before the loop (main.c:137-143)
GvProbe ==
    /\ pc = "gv_probe"
    /\ \E w \in WriteResults(4), r \in ReadResults(RespLen), resp \in Responses :
        LET c == GetVerCycle(link, w, r, resp)
        IN  /\ link' = c.link
            /\ response' = c.response
            /\ tries' = 0
            /\ IF c.ret <= 0
               THEN Leave(c.ret, "aborted")
               ELSE pc' = "gv_loop" /\ UNCHANGED <<ret, status>>
    /\ UNCHANGED <<main, hostLE, variant, is_setup, op, arg, size, chunkSize, offset, readPos,
                   nSent, filePos, reported, nCalls>>

\* one iteration of while(1) (main.c:146-170) and, on a match, lines 175-178
GvLoop ==
    /\ pc = "gv_loop"
    /\ \E w \in WriteResults(4), r \in ReadResults(RespLen), resp \in Responses :
        LET c == GetVerCycle(link, w, r, resp)
        IN  /\ link' = c.link
            /\ response' = c.response
            /\ IF c.ret <= 0
               THEN Leave(c.ret, "aborted") /\ UNCHANGED <<tries, variant>>
               ELSE IF Magic(hostLE, c.response) = U32(DEV_MAGIC)
               THEN /\ variant' = c.response.b
                    /\ Leave(PackVariant(c.response.b), "completed")
                    /\ UNCHANGED tries
               ELSE /\ tries' = tries + 1
                    /\ UNCHANGED variant
                    /\ IF GvGiveUp(tries + 1)
                       THEN Leave(-1, "aborted")
                       ELSE UNCHANGED <<pc, ret, status>>
    /\ UNCHANGED <<main, hostLE, is_setup, op, arg, size, chunkSize, offset, readPos,
                   nSent, filePos, reported, nCalls>>

----------------------------------------------------------------------------
(* Transfer engine: device_upload                                          *)

\* the chunk size with the two larger tiers exchanged
UploadChunkSize_swapped(sz) ==
    LET units == IF sz > Mib16 THEN 16 ELSE IF sz > Mib2 THEN 32 ELSE 4
        bytes == units * ChunkUnit
    IN  IF bytes > sz THEN sz ELSE bytes

\* main.c:200-207
UploadChunkSize(sz) ==
    LET units == IF sz > Mib16 THEN 32 ELSE IF sz > Mib2 THEN 16 ELSE 4
        bytes == units * ChunkUnit
    IN  IF bytes > sz THEN sz ELSE bytes

\* one attempt too many: tries <= 5
UlRetryAgain_le(t) == t <= RawTries

\* the condition tries<5 of the retry loop, read after tries++ (main.c:234)
UlRetryAgain(t) == t < RawTries

\* the byte count handed back in place of 0
UlSuccessRet_count(rp) == rp

\* return 0 after the loop (main.c:259); rp is readPos
UlSuccessRet(rp) == 0

\* results ftdi_write_data / ftdi_read_data can give for a bulk transfer of len
\* bytes: an error, nothing, all of it, or a part of it
RawResults(lk, len) ==
    {-1, 0, len} \cup (IF len >= 2 /\ lk.partials < MaxPartials THEN {len \div 2} ELSE {})

\* the offset parameter left at the start of the bank
TransferParams_fixed(off, cs, bank) ==
    <<U32(0), Or32(U32(cs % 16777216), U32(bank * 16777216))>>

\* {offset, (chunkSize & 0xffffff) | bank << 24}
TransferParams(off, cs, bank) == <<off, Or32(U32(cs % 16777216), U32(bank * 16777216))>>

\* the record of one raw bulk transfer that returned n
RawDone(lk, cs, n) ==
    [lk EXCEPT !.chunkRaws = @ + 1,
               !.partials = @ + (IF 0 < n /\ n < cs THEN 1 ELSE 0),
               !.moved = @ + (IF n > 0 THEN n ELSE 0),
               !.allFull = @ /\ n = cs]

\* main.c:190-226: device_upload(file, s, o, bank) on a file of fl bytes up
\* to the loop test: size, chunk size, buffer, write chunk size
UploadBegin(s, o, fl, mallocOk, err) ==
    LET sz == IF s < 0 THEN fl - 0 ELSE s
    IN  /\ size' = sz
        /\ chunkSize' = UploadChunkSize(sz)
        /\ offset' = U32(o)
        /\ readPos' = 0
        /\ IF ~mallocOk THEN Leave(-1, "aborted")
           ELSE IF err # 0 THEN Leave(err, "aborted")
           ELSE IF 0 < sz THEN pc' = "ul_cmd" /\ status' = "running" /\ UNCHANGED ret
           ELSE Leave(UlSuccessRet(0), "completed")
        /\ UNCHANGED <<hostLE, variant, is_setup, tries, nSent, filePos, response,
                       link, reported>>

CallUpload ==
    \E s \in SizeVals, t \in TargetVals, fl \in FileLens,
       mallocOk \in BOOLEAN, err \in {0, -1} :
        /\ is_setup = 1
        /\ Enter("upload", [NoArg EXCEPT !.size = s, !.offset = t[1], !.bank = t[2],
                                         !.fileLen = fl])
        /\ UploadBegin(s, t[1], fl, mallocOk, err)
        /\ UNCHANGED main

\* main.c:228-233: fread, the LOADRAM command (its result is not looked at)
UlCmd ==
    /\ pc = "ul_cmd"
    /\ \E w \in WriteResults(12) :
        LET res == device_send_cmd(hostLE, link, DEV_CMD_LOADRAM, 2,
                                   TransferParams(offset, chunkSize, arg.bank), 0, w, 0)
        IN  link' = [res.link EXCEPT !.chunkRaws = 0, !.cmdFailed = res.ret <= 0]
    /\ filePos' = IF filePos + chunkSize > arg.fileLen THEN arg.fileLen
                  ELSE filePos + chunkSize
    /\ nSent' = -1
    /\ tries' = 0
    /\ pc' = "ul_raw"
    /\ UNCHANGED <<main, hostLE, variant, is_setup, op, arg, size, chunkSize, offset, readPos,
                   response, ret, status, reported, nCalls>>

\* main.c:234-256: one ftdi_write_data of the retry loop and what follows it
UlRaw ==
    /\ pc = "ul_raw"
    /\ \E n \in RawResults(link, chunkSize) :
        /\ nSent' = n
        /\ link' = RawDone(link, chunkSize, n)
        /\ IF n > 0
           THEN /\ offset' = U32Add(offset, n)
                /\ readPos' = readPos + n
                /\ UNCHANGED <<tries, reported>>
                /\ IF readPos + n < size
                   THEN pc' = "ul_cmd" /\ UNCHANGED <<ret, status>>
                   ELSE Leave(UlSuccessRet(readPos + n), "completed")
           ELSE /\ tries' = tries + 1
                /\ UNCHANGED <<offset, readPos>>
                /\ IF UlRetryAgain(tries + 1)
                   THEN UNCHANGED <<pc, ret, status, reported>>
                   ELSE reported' = readPos /\ Leave(n, "aborted")
    /\ UNCHANGED <<main, hostLE, variant, is_setup, op, arg, size, chunkSize, filePos,
                   response, nCalls>>

----------------------------------------------------------------------------
(* Transfer engine: device_download                                        *)

\* main.c:278-285
DownloadChunkSize(sz) ==
    LET units == IF sz > Mib16 THEN 32 ELSE IF sz > Mib2 THEN 16 ELSE 4
        bytes == units * ChunkUnit
    IN  IF bytes > sz THEN sz ELSE bytes

\* main.c:272-301: device_download(file, s, o, bank) up to the loop test
DownloadBegin(s, o, mallocOk, err) ==
    LET sz == IF s < 0 THEN DefaultDumpSize ELSE s
    IN  /\ size' = sz
        /\ chunkSize' = DownloadChunkSize(sz)
        /\ offset' = U32(o)
        /\ readPos' = 0
        /\ IF ~mallocOk THEN Leave(-1, "aborted")
           ELSE IF err # 0 THEN Leave(err, "aborted")
           ELSE IF 0 < sz THEN pc' = "dl_cmd" /\ status' = "running" /\ UNCHANGED ret
           ELSE Leave(0, "completed")
        /\ UNCHANGED <<hostLE, variant, is_setup, tries, nSent, filePos, response,
                       link, reported>>

CallDownload ==
    \E s \in SizeVals, t \in TargetVals, mallocOk \in BOOLEAN, err \in {0, -1} :
        /\ is_setup = 1
        /\ Enter("download", [NoArg EXCEPT !.size = s, !.offset = t[1], !.bank = t[2]])
        /\ DownloadBegin(s, t[1], mallocOk, err)
        /\ UNCHANGED main

\* main.c:303-306: the DUMPRAM command (its result is not looked at), the
\* link giving its write one of the results W
DlCmdStep(W) ==
    /\ pc = "dl_cmd"
    /\ \E w \in W :
        LET res == device_send_cmd(hostLE, link, DEV_CMD_DUMPRAM, 2,
                                   TransferParams(offset, chunkSize, arg.bank), 0, w, 0)
        IN  link' = [res.link EXCEPT !.chunkRaws = 0, !.cmdFailed = res.ret <= 0]
    /\ nSent' = -1
    /\ tries' = 0
    /\ pc' = "dl_raw"
    /\ UNCHANGED <<main, hostLE, variant, is_setup, op, arg, size, chunkSize, offset, readPos,
                   filePos, response, ret, status, reported, nCalls>>

DlCmd == DlCmdStep(WriteResults(12))

\* main.c:307-330: one ftdi_read_data of the retry loop and what follows it,
\* the link giving one of the results R
DlRawStep(R) ==
    /\ pc = "dl_raw"
    /\ \E n \in R :
        /\ nSent' = n
        /\ link' = RawDone(link, chunkSize, n)
        /\ IF n > 0
           THEN /\ filePos' = filePos + n
                /\ offset' = U32Add(offset, n)
                /\ readPos' = readPos + n
                /\ UNCHANGED <<tries, reported>>
                /\ IF readPos + n < size
                   THEN pc' = "dl_cmd" /\ UNCHANGED <<ret, status>>
                   ELSE Leave(0, "completed")
           ELSE /\ tries' = tries + 1
                /\ UNCHANGED <<offset, readPos, filePos>>
                /\ IF tries + 1 < RawTries
                   THEN UNCHANGED <<pc, ret, status, reported>>
                   ELSE reported' = readPos /\ Leave(n, "aborted")
    /\ UNCHANGED <<main, hostLE, variant, is_setup, op, arg, size, chunkSize,
                   response, nCalls>>

DlRaw == DlRawStep(RawResults(link, chunkSize))

----------------------------------------------------------------------------
(* CIC selector: the -c option of main and device_set_cic                  *)

\* cic_types[i].num, i = 0..7 (main.c:38-45)
CicTypeNum(i) == <<6101, 6102, 7101, 7102, 103, 105, 106, 5101>>[i + 1]

\* the indices the lookup loop of case 'c' accepts for num (main.c:540-542)
CicMatches(num) ==
    {i \in 0..(CIC_LAST - 1) : CicTypeNum(i) = num \/ (num < CIC_LAST /\ num = i)}

\* cic_types[i].cic of the first match, -1 if there is none (main.c:538-550)
CicLookup(num) ==
    IF CicMatches(num) = {} THEN -1
    ELSE CHOOSE i \in CicMatches(num) : \A j \in CicMatches(num) : i <= j

\* the capability check left out
device_set_cic_unchecked(lk, cic, w) ==
    LET param == Or32(<<128, 0, 0, 0>>, U32(cic))
        res == device_send_cmd(hostLE, lk, DEV_CMD_SETCIC, 1, <<param>>, 0, w, 0)
    IN  [ret |-> res.ret, link |-> res.link, status |-> "completed"]

\* device_set_cic(device, cic) with link result w
device_set_cic(lk, cic, w) ==
    IF variant[1] = 65
    THEN [ret |-> -1, link |-> lk, status |-> "aborted"]
    ELSE LET param == Or32(<<128, 0, 0, 0>>, U32(cic))
             res == device_send_cmd(hostLE, lk, DEV_CMD_SETCIC, 1, <<param>>, 0, w, 0)
         IN  [ret |-> res.ret, link |-> res.link, status |-> "completed"]

\* case 'c' (main.c:537-556), the device being set up already
OptCic ==
    \E num \in CicNums, w \in WriteResults(8) :
        LET cic == CicLookup(num)
            res == device_set_cic(NoLink, cic, w)
        IN  /\ is_setup = 1
            /\ Enter("set_cic", [NoArg EXCEPT !.num = num])
            /\ IF cic < 0
               THEN /\ pc' = "exit"     \* "Invalid CIC", return EXIT_FAILURE
                    /\ UNCHANGED <<link, ret, status>>
               ELSE /\ link' = res.link
                    /\ Leave(res.ret, res.status)
            /\ UNCHANGED <<main, hostLE, variant, is_setup, size, chunkSize, offset, readPos,
                           tries, nSent, filePos, response, reported>>

----------------------------------------------------------------------------

Next ==
    \/ CallSendCmd
    \/ CallGetVersion
    \/ GvProbe
    \/ GvLoop
    \/ CallUpload
    \/ UlCmd
    \/ UlRaw
    \/ CallDownload
    \/ DlCmd
    \/ DlRaw
    \/ OptCic
    \/ ReturnToCaller

Spec == Init /\ [][Next]_vars

----------------------------------------------------------------------------
(* The process as main runs it: getopt_long hands over the options of the  *)
(* command line one by one, in their order; -b, -o and -s change locals of *)
(* main, -c, -d, -i and -l first set the device up (setup_or_die) and then *)
(* call device_set_cic, device_download, device_get_version and            *)
(* device_upload, which run step by step as above. The options -h, -L, -q  *)
(* and -v touch neither the locals nor the link and are left out.          *)

\* the bank table banks[] (main.c:23-30), -1 for a name it does not hold
BankByName(a) ==
    CASE a = "rom" -> BANK_CARTROM
      [] a = "sram256" -> 2
      [] a = "sram768" -> 3
      [] a = "flash" -> 4
      [] a = "pokemon" -> 5
      [] a = "eeprom" -> BANK_EEPROM16
      [] OTHER -> -1

\* atoi on the option arguments of BankArgs that are no bank name: the number
\* the text starts with, 0 for text that starts with no number
atoi(a) == CASE a = "6" -> 6 [] a = "7" -> 7 [] a = "0" -> 0 [] OTHER -> 0

\* main at its first getopt_long call (main.c:499-503); the fields after cic
\* record what was asked for and what the process did
MainStart ==
    [bank |-> BANK_CARTROM, fileSize |-> -1, fileOffset |-> 0,
     nOpts |-> 0,          \* options getopt_long has returned
     c |-> "none",         \* the device option being handled
     cic |-> -1,           \* int cic of case 'c'
     bankOpt |-> "",       \* argument of the latest bank option
     offOpt |-> -1,        \* argument of an offset option no transfer has used yet
     sizeOpt |-> -1,       \* argument of a size option no transfer has used yet
     prevBank |-> 0,       \* bank the previous transfer was called with
     setups |-> 0,         \* calls of setup_device
     opened |-> FALSE,     \* device_open has found the device
     initFailed |-> FALSE, \* a step of device_init has failed in the setup under way
     handshook |-> FALSE,  \* the handshake of setup_device has met the magic
     exitCode |-> -1]      \* exit status, once the process has ended

InitMain ==
    /\ hostLE \in BOOLEAN
    /\ variant = <<0, 0, 0>>     \* not initialised, and not read before the
                                \* handshake of setup_device has stored it
    /\ is_setup = 0
    /\ pc = "idle"
    /\ op = "none"
    /\ arg = NoArg
    /\ size = 0
    /\ chunkSize = 0
    /\ offset = U32(0)
    /\ readPos = 0
    /\ tries = 0
    /\ nSent = 0
    /\ filePos = 0
    /\ response = NoResponse
    /\ ret = 0
    /\ status = "none"
    /\ link = NoLink
    /\ reported = -1
    /\ nCalls = 0
    /\ main = MainStart

\* getopt_long returns a further option
GetOpt == pc = "idle" /\ main.nOpts < MaxOpts

\* exit(code), or return code from main
Exit(mn, code) ==
    /\ pc' = "exit"
    /\ main' = [mn EXCEPT !.exitCode = code, !.c = "none"]

\* nothing of the device and of the call under way changes, but for pc
DeviceUnchanged ==
    UNCHANGED <<hostLE, variant, is_setup, op, arg, size, chunkSize, offset, readPos,
                tries, nSent, filePos, response, ret, status, link, reported, nCalls>>

\* case 'b' (main.c:515-531)
CaseBank ==
    \E a \in BankArgs :
        LET named == BankByName(a)
            bank == IF named < 0 THEN atoi(a) ELSE named
            mn == [main EXCEPT !.nOpts = @ + 1, !.bank = bank]
        IN  /\ GetOpt
            /\ IF named < 0 /\ (bank < 0 \/ bank >= BANK_LAST)
               THEN Exit(mn, EXIT_FAILURE)        \* "Invalid bank"
               ELSE pc' = pc /\ main' = [mn EXCEPT !.bankOpt = a]
            /\ DeviceUnchanged

\* case 'o' (main.c:621-623)
CaseOffset ==
    \E v \in OffsetArgs :
        /\ GetOpt
        /\ main' = [main EXCEPT !.nOpts = @ + 1, !.fileOffset = v, !.offOpt = v]
        /\ pc' = pc
        /\ DeviceUnchanged

\* a size option: -s and --size make getopt_long return 's', -z is not in the
\* option string and makes it return '?'; no case matches either, so default
\* prints the code (main.c:641-642). case 'z' (main.c:636-639) is never reached.
CaseDefault ==
    \E v \in SizeArgs :
        /\ GetOpt
        /\ main' = [main EXCEPT !.nOpts = @ + 1, !.sizeOpt = v]
        /\ pc' = pc
        /\ DeviceUnchanged


\* setup_or_die sets up whatever is_setup says
SetupNeeded_always(is) == TRUE

\* setup_or_die: if(is_setup) return (main.c:491)
SetupNeeded(is) == is = 0

\* a device option is taken up: the set-up comes first if it was not made yet
NeedDevice(c, cic) ==
    /\ GetOpt
    /\ main' = [main EXCEPT !.nOpts = @ + 1, !.c = c, !.cic = cic]
    /\ pc' = IF SetupNeeded(is_setup) THEN "setup" ELSE "run"
    /\ DeviceUnchanged

\* case 'c' up to setup_or_die (main.c:537-545, 551-554)
CaseCic ==
    \E num \in CicNums :
        IF CicLookup(num) < 0
        THEN /\ GetOpt
             /\ Exit([main EXCEPT !.nOpts = @ + 1], EXIT_FAILURE)   \* "Invalid CIC"
             /\ DeviceUnchanged
        ELSE NeedDevice("c", CicLookup(num))

\* case 'd', case 'i', case 'l' up to setup_or_die (main.c:558-559, 582-583, 590-591)
CaseDump == NeedDevice("d", -1)
CaseInfo == NeedDevice("i", -1)
CaseLoad == NeedDevice("l", -1)

\* device_open: the version of the first entry of devices[] that opens, 0 if
\* none does; openable holds the versions whose ftdi_usb_open_desc succeeds
device_open(openable) ==
    IF 2 \in openable THEN 2 ELSE IF 1 \in openable THEN 1 ELSE 0

\* the steps device_init makes on hardware of a version: 1 ftdi_usb_reset,
\* 2 and 3 ftdi_set_bitmode, 4 ftdi_set_latency_timer, 5 ftdi_usb_purge_buffers
InitSteps(version) == IF version = 2 THEN {1, 2, 3, 4, 5} ELSE {1, 4, 5}

\* device_init where step failAt fails (0: none does): return fail_ftdi(...),
\* which is EXIT_FAILURE, at the failed step, return 1 at the end
device_init(version, failAt) ==
    [failed |-> failAt \in InitSteps(version),
     ret |-> IF failAt \in InitSteps(version) THEN EXIT_FAILURE ELSE 1]

\* device_get_version is called
GetVersionBegin ==
    /\ op' = "get_version"
    /\ arg' = NoArg
    /\ pc' = "gv_probe"
    /\ status' = "running"
    /\ UNCHANGED <<hostLE, variant, is_setup, size, chunkSize, offset, readPos, tries,
                   nSent, filePos, response, ret, link, reported, nCalls>>

\* setup_or_die with is_setup = 0: setup_device up to its device_get_version
\* call (main.c:404-423); exit(err) when it returns before
SetupDevice ==
    /\ pc = "setup"
    /\ \E newOk \in BOOLEAN, openable \in SUBSET {1, 2}, failAt \in 0..5 :
        LET ver == device_open(openable)
            init == device_init(ver, failAt)
            mn == [main EXCEPT !.setups = @ + 1]
        IN  IF ~newOk \/ ver < 1
            THEN Exit(mn, EXIT_FAILURE) /\ DeviceUnchanged
            ELSE IF init.ret = 0
            THEN Exit([mn EXCEPT !.opened = TRUE, !.initFailed = init.failed], EXIT_FAILURE)
                 /\ DeviceUnchanged
            ELSE /\ main' = [mn EXCEPT !.opened = TRUE, !.initFailed = init.failed]
                 /\ GetVersionBegin

\* device_set_cic(&device, cic_types[i].cic) of case 'c' (main.c:546)
RunCic ==
    /\ pc = "run" /\ main.c = "c"
    /\ \E w \in WriteResults(8) :
        LET res == device_set_cic(NoLink, main.cic, w)
        IN  /\ link' = res.link
            /\ Leave(res.ret, res.status)
    /\ op' = "set_cic"
    /\ UNCHANGED <<main, hostLE, variant, is_setup, arg, size, chunkSize, offset, readPos,
                   tries, nSent, filePos, response, reported, nCalls>>

\* case 'd' after setup_or_die (main.c:561-569): the file is opened and
\* device_download called with the locals of main
RunDump ==
    /\ pc = "run" /\ main.c = "d"
    /\ \E fileOk \in BOOLEAN, mallocOk \in BOOLEAN, err \in {0, -1} :
        IF ~fileOk
        THEN pc' = "idle" /\ main' = [main EXCEPT !.c = "none"] /\ DeviceUnchanged
        ELSE /\ op' = "download"
             /\ arg' = [NoArg EXCEPT !.size = main.fileSize, !.offset = main.fileOffset,
                                     !.bank = main.bank]
             /\ DownloadBegin(main.fileSize, main.fileOffset, mallocOk, err)
             /\ UNCHANGED <<main, nCalls>>

\* the steps of a device_download call of main: the link may give every
\* result in the first MaxBadChunks chunks of the call and works from then on
MainDlCmd ==
    DlCmdStep(IF link.writes < MaxBadChunks THEN WriteResults(12) ELSE {12})
MainDlRaw ==
    DlRawStep(IF link.writes <= MaxBadChunks THEN RawResults(link, chunkSize)
              ELSE {chunkSize})

\* device_get_version(&device) of case 'i' (main.c:584)
RunInfo ==
    /\ pc = "run" /\ main.c = "i"
    /\ GetVersionBegin
    /\ UNCHANGED main

\* case 'l' after setup_or_die (main.c:593-601)
RunLoad ==
    /\ pc = "run" /\ main.c = "l"
    /\ \E fileOk \in BOOLEAN, fl \in FileLens, mallocOk \in BOOLEAN, err \in {0, -1} :
        IF ~fileOk
        THEN pc' = "idle" /\ main' = [main EXCEPT !.c = "none"] /\ DeviceUnchanged
        ELSE /\ op' = "upload"
             /\ arg' = [NoArg EXCEPT !.size = main.fileSize, !.offset = main.fileOffset,
                                     !.bank = main.bank, !.fileLen = fl]
             /\ UploadBegin(main.fileSize, main.fileOffset, fl, mallocOk, err)
             /\ UNCHANGED <<main, nCalls>>

\* the bank reset with the size and the offset
AfterTransfer_bank(mn) ==
    [mn EXCEPT !.fileSize = -1, !.fileOffset = 0, !.bank = BANK_CARTROM]

\* fileSize = -1; fileOffset = 0; after the call (main.c:571-572, 603-604)
AfterTransfer(mn) == [mn EXCEPT !.fileSize = -1, !.fileOffset = 0]

\* a device_* call returns into main: setup_device fails on a handshake result
\* <= 0 and setup_or_die exits (main.c:423-426, 493), else is_setup = 1 and the
\* case goes on; after a transfer fileSize and fileOffset are reset
\* (main.c:571-572, 603-604); no other return value is looked at
MainReturn ==
    /\ pc = "return"
    /\ IF op = "get_version" /\ is_setup = 0
       THEN LET mn == [main EXCEPT !.handshook = (status = "completed")]
            IN  IF ret <= 0
                THEN Exit(mn, EXIT_FAILURE) /\ is_setup' = is_setup
                ELSE /\ pc' = "run"
                     /\ main' = [mn EXCEPT !.initFailed = FALSE]
                     /\ is_setup' = 1
       ELSE /\ pc' = "idle"
            /\ is_setup' = is_setup
            /\ main' = IF op \in {"upload", "download"}
                       THEN [AfterTransfer(main) EXCEPT !.c = "none", !.offOpt = -1,
                                                        !.sizeOpt = -1, !.prevBank = arg.bank]
                       ELSE [main EXCEPT !.c = "none"]
    /\ size' = 0 /\ chunkSize' = 0 /\ offset' = U32(0) /\ readPos' = 0
    /\ tries' = 0 /\ nSent' = 0 /\ filePos' = 0 /\ response' = NoResponse
    /\ link' = NoLink /\ arg' = NoArg /\ op' = "none"
    /\ ret' = 0 /\ status' = "none" /\ reported' = -1
    /\ UNCHANGED <<hostLE, variant, nCalls>>

\* getopt_long returns -1: shutdown_device, return EXIT_SUCCESS (main.c:645-646)
MainEnd ==
    /\ pc = "idle"
    /\ Exit(main, EXIT_SUCCESS)
    /\ DeviceUnchanged

NextMain ==
    \/ CaseBank
    \/ CaseOffset
    \/ CaseDefault
    \/ CaseCic
    \/ CaseDump
    \/ CaseInfo
    \/ CaseLoad
    \/ SetupDevice
    \/ RunCic
    \/ RunDump
    \/ RunInfo
    \/ RunLoad
    \/ GvProbe
    \/ GvLoop
    \/ UlCmd
    \/ UlRaw
    \/ MainDlCmd
    \/ MainDlRaw
    \/ MainReturn
    \/ MainEnd

SpecMain == InitMain /\ [][NextMain]_vars

----------------------------------------------------------------------------
(* Properties                                                              *)

Transfers == {"upload", "download"}
Returned == pc = "return"

\* C1: every upload or download that ends normally has moved exactly size
\* bytes in its raw transfers and left offset at initial offset + size.
C1_TransferMovesExactlySize ==
    (Returned /\ op \in Transfers /\ status = "completed") =>
        (link.moved = size /\ offset = U32(arg.offset + size))

\* C2: a getVersion call makes at most 4 GETVER send/receive cycles: never
\* more than 4 frames written and 4 responses read.
C2_AtMostFourCycles ==
    op = "get_version" => (link.writes <= 4 /\ link.reads <= 4)

\* C3: once a response whose second big-endian word is 0x55444556 has been
\* read, the call has ended in success with the variant bytes of that same
\* response; it never goes on to send another GETVER frame.
C3_AcceptsFirstMagic ==
    (op = "get_version" /\ link.magicRead) =>
        (Returned /\ status = "completed" /\ variant = response.b)

C6_CicOf(num) ==
    IF num = 6102 THEN 1 ELSE IF num = 103 THEN 4 ELSE IF num = 3 THEN 3 ELSE 0

\* C6: setCIC on a variant starting with 'A' fails and writes nothing; on any
\* other variant it writes exactly one 8-byte frame, opcode 0x72, tag "CMD",
\* with the one parameter 0x80000000 | cicId, and reads nothing; 6102 gives
\* id 1 and the parameter 0x80000001.
C6_SetCicGated ==
    (Returned /\ op = "set_cic") =>
        IF variant[1] = 65
        THEN ret = -1 /\ link.writes = 0 /\ link.reads = 0
        ELSE /\ link.writes = 1 /\ link.reads = 0
             /\ Len(link.frame) = 8
             /\ SubSeq(link.frame, 1, 4) = <<114, 67, 77, 68>>
             /\ link.params = << <<128, 0, 0, C6_CicOf(arg.num)>> >>
             /\ arg.num = 6102 => link.params = << <<128, 0, 0, 1>> >>

C6_Witness ==
    /\ Returned /\ op = "set_cic" /\ arg.num = 6102
    /\ variant[1] # 65 /\ link.writes = 1

\* C7: a command with more than 7 parameters fails without any link write or
\* read; one with 0..7 parameters makes exactly one link write, of 4 + 4n
\* bytes, at most 32.
C7_ParamBound ==
    (Returned /\ op = "send_cmd") =>
        IF arg.nParams > 7
        THEN ret = -1 /\ link.writes = 0 /\ link.reads = 0
        ELSE /\ link.writes = 1
             /\ Len(link.frame) = 4 + 4 * arg.nParams
             /\ Len(link.frame) <= 32

C7_Witness ==
    Returned /\ op = "send_cmd" /\ arg.nParams = 8 /\ ret = -1 /\ link.writes = 0

RECURSIVE C8_BigEndian(_, _)
\* the first n parameters, each as 4 bytes, most significant byte first
C8_BigEndian(params, n) ==
    IF n = 0 THEN <<>> ELSE C8_BigEndian(params, n - 1) \o params[n]

\* C8: whatever the host byte order, the frame written is the opcode, 'C',
\* 'M', 'D', then every parameter most significant byte first.
C8_FrameBigEndian ==
    (Returned /\ op = "send_cmd" /\ arg.nParams <= 7) =>
        link.frame = <<arg.cmd, 67, 77, 68>> \o C8_BigEndian(arg.params, arg.nParams)

\* sizes the chunk size of the call under way is compared with
C9_Sizes == (SizeVals \ {-1}) \cup FileLens \cup {DefaultDumpSize, 524289}

\* C9: the chunk size is monotone nondecreasing in size, never above size, a
\* multiple of 131072 unless it is clamped to size, the same function of the
\* total size in upload and download, and the same for every chunk of a call.
C9_ChunkSize ==
    (op \in Transfers /\ pc # "idle") =>
        /\ chunkSize <= size
        /\ chunkSize # size => chunkSize % 131072 = 0
        /\ \A s \in C9_Sizes :
               /\ s <= size => (UploadChunkSize(s) <= chunkSize /\ DownloadChunkSize(s) <= chunkSize)
               /\ s >= size => (UploadChunkSize(s) >= chunkSize /\ DownloadChunkSize(s) >= chunkSize)
        /\ link.writes >= 1 => link.params[2] = U32(arg.bank * 16777216 + chunkSize)

C9_Witness ==
    /\ op = "upload" /\ pc = "ul_raw" /\ link.writes = 2
    /\ size = Mib2 + 1 /\ chunkSize = 16 * 131072

\* what C10 says of transfers whose raw transfers all moved the full chunk,
\* but for the count of chunks of a size below one computed chunk
C10_Common ==
    /\ link.writes >= 1 =>
           /\ link.cmd = (IF op = "upload" THEN 32 ELSE 48)
           /\ link.params[1] = U32(arg.offset + (link.writes - 1) * chunkSize)
    /\ (Returned /\ status = "completed") =>
           /\ size > 0 => ((link.writes - 1) * chunkSize < size /\ size <= link.writes * chunkSize)
           /\ size = 1048576 =>
                  (chunkSize = 524288 /\ link.writes = 2 /\ offset = U32(arg.offset + 1048576))

\* C10, as stated: with every raw transfer full, one command frame per chunk
\* at offsets initialOffset + k*chunkSize; 1 MiB gives two chunks of 524288;
\* any size below one computed chunk gives chunkSize = size and one chunk.
C10_OneChunkBelowChunkSize ==
    (op \in Transfers /\ link.allFull) =>
        /\ C10_Common
        /\ (Returned /\ status = "completed" /\ size < 4 * 131072) =>
               (chunkSize = size /\ link.writes = 1)

\* C10, amended: as stated, but a size below one computed chunk gives one
\* chunk only if it is positive; size 0 gives no chunk and no command frame.
C10_ChunksAtOffsets ==
    (op \in Transfers /\ link.allFull) =>
        /\ C10_Common
        /\ (Returned /\ status = "completed" /\ size < 4 * 131072) =>
               (chunkSize = size /\ link.writes = (IF size > 0 THEN 1 ELSE 0))

C10_Witness ==
    /\ Returned /\ op = "download" /\ status = "completed" /\ link.allFull
    /\ size = 1048576 /\ arg.offset = 1048576 /\ link.writes = 2

\* C13: a partial raw transfer never desynchronizes an upload: after every
\* chunk the bytes consumed from the source file equal the bytes actually
\* transferred so far (as far as the file reaches), so the next chunk, sent
\* to initial offset + bytes transferred, is read from that same position
\* of the source.
C13_SourceInSync ==
    (op = "upload" /\ pc \in {"ul_cmd", "return"} /\ link.writes >= 1 /\ nSent > 0) =>
        /\ offset = U32(arg.offset + link.moved)
        /\ filePos = (IF link.moved > arg.fileLen THEN arg.fileLen ELSE link.moved)

\* C14: within a transfer a further LOADRAM/DUMPRAM frame is written only
\* after the previous chunk's raw transfer has moved the number of bytes
\* declared in the previous frame's size field, whatever the raw transfers
\* returned.
C14_PayloadCompleteBeforeNextFrame ==
    [][(op \in Transfers /\ link.writes >= 1 /\ link'.writes = link.writes + 1) =>
           /\ nSent = chunkSize
           /\ link.params[2] = U32(arg.bank * 16777216 + nSent)]_vars

\* C15: if the link write of a chunk's LOADRAM/DUMPRAM command frame fails,
\* no raw transfer of that chunk's payload is made and no byte of it is
\* counted, and the call ends aborted with an error.
C15_CommandFailureAborts ==
    (op \in Transfers /\ link.writes >= 1 /\ link.cmdFailed) =>
        /\ link.chunkRaws = 0
        /\ Returned => (status = "aborted" /\ ret <= 0)

\* C16: a getVersion call that surfaces a link failure (a GETVER write or a
\* 64-byte read with a result <= 0) has made its full number of attempts
\* before; a setCIC refused for the variant and a command with too many
\* parameters are made once and not retried.
C16_LinkFailureRetried ==
    /\ (Returned /\ op = "get_version" /\ status = "aborted") =>
           link.writes >= GetVerTries
    /\ (Returned /\ op \in {"set_cic", "send_cmd"} /\ status = "aborted") =>
           link.writes = 0

\* C17: a getVersion call that ends on a response carrying the magic returns
\* a strictly positive value, whatever the three variant bytes are, and the
\* session setup that made the call then succeeds.
C17_MagicGivesPositive ==
    [][(Returned /\ op = "get_version" /\ status = "completed") =>
           /\ ret > 0
           /\ is_setup = 0 => (is_setup' = 1 /\ pc' = "idle")]_vars

\* steps the call under way can still take, at most: 7 per byte left of a
\* transfer (the command, up to 5 raw transfers, one more), and one per
\* GETVER cycle left of the handshake
C19_Measure ==
    IF status # "running" THEN 0
    ELSE IF op \in Transfers
    THEN (size - readPos) * (RawTries + 2)
             + (IF pc \in {"ul_cmd", "dl_cmd"} THEN RawTries + 1 ELSE RawTries - tries)
    ELSE IF pc = "gv_probe" THEN GetVerTries + 1 ELSE GetVerTries - tries

\* C19: every upload, download and getVersion call terminates whatever the
\* link returns: every step of a call under way strictly lowers a measure
\* that is never negative, each raw transfer either moving at least one byte
\* toward size or counting one of the 5 attempts of the chunk, each GETVER
\* cycle either ending the call or counting one of the 4 mismatches.
C19_CallsTerminate ==
    [][status = "running" =>
           /\ C19_Measure > 0
           /\ C19_Measure' >= 0
           /\ C19_Measure' < C19_Measure
           /\ (op \in Transfers /\ readPos' = readPos /\ pc' = pc) => tries' = tries + 1
           /\ (op \in Transfers /\ pc' = "return" /\ status' = "aborted") => tries' = RawTries
           /\ (op = "get_version" /\ pc = "gv_loop" /\ pc' = pc) => tries' = tries + 1]_vars

C19_Witness ==
    /\ Returned /\ op = "download" /\ status = "completed"
    /\ link.partials = 2 /\ link.chunkRaws = 5 /\ link.writes >= 2

\* the bank a bank option argument stands for; cartridge ROM if there was none
C11_BankOf(a) == IF a = "eeprom" THEN 6 ELSE 1

\* C11: options take effect in the order given and the bank stays until the
\* next bank option: every LOADRAM/DUMPRAM frame of a transfer carries the
\* bank of the latest bank option before it, cartridge ROM if there was none.
C11_FramesCarryBank ==
    (op \in Transfers /\ link.writes >= 1) =>
        /\ link.cmd = (IF op = "upload" THEN 32 ELSE 48)
        /\ link.params[2][1] = main.bank
        /\ arg.bank = main.bank
        /\ main.bankOpt \in {"", "rom", "eeprom"} =>
               link.params[2][1] = C11_BankOf(main.bankOpt)

\* -l file.rom -b eeprom -l file.sav: the second transfer, to EEPROM, after
\* a first one to ROM
C11_Witness ==
    /\ op = "upload" /\ link.writes = 1 /\ link.params[2][1] = 6
    /\ main.nOpts = 3 /\ main.bankOpt = "eeprom" /\ main.prevBank = 1

\* C12: a transfer is called with the offset and the size of the offset and
\* size options given since the transfer before it, and with offset 0 and
\* size "entire file" (-1) where none was given; its first frame carries
\* that offset.
C12_NextTransferUsesOptions ==
    op \in Transfers =>
        /\ arg.offset = (IF main.offOpt < 0 THEN 0 ELSE main.offOpt)
        /\ arg.size = main.sizeOpt
        /\ link.writes = 1 => link.params[1] = U32(arg.offset)

\* C18: a LOADRAM, DUMPRAM or SETCIC frame is written only in a process that
\* has opened the device and whose set-up handshake has met the magic; the
\* set-up is made at most once; a process whose set-up has failed has ended
\* with a failure status.
C18_FramesAfterSetup ==
    /\ (link.writes >= 1 /\ link.cmd \in {32, 48, 114}) =>
           (main.opened /\ main.handshook /\ is_setup = 1 /\ main.setups = 1)
    /\ main.setups <= 1
    /\ op \in Transfers \cup {"set_cic"} => is_setup = 1
    /\ (main.setups = 1 /\ is_setup = 0 /\ pc \notin {"gv_probe", "gv_loop", "return"}) =>
           (pc = "exit" /\ main.exitCode = EXIT_FAILURE)
    /\ pc = "exit" => (link.writes = 0 /\ op = "none")

\* a CIC frame after an earlier transfer of the same process
C18_Witness ==
    /\ op = "set_cic" /\ link.writes = 1 /\ link.cmd = 114
    /\ main.prevBank # 0 /\ main.setups = 1

\* C20: once a step of device_init has failed, no frame is written and the
\* process has ended with a failure status.
C20_InitFailureStopsSetup ==
    main.initFailed =>
        (link.writes = 0 /\ pc = "exit" /\ main.exitCode = EXIT_FAILURE)

\* C22: the value an upload or download returns after it has given up on a
\* chunk (5 raw transfers without progress) differs from the value a call
\* returns that has moved all its bytes.
C22_AbortDiffersFromCompletion ==
    (Returned /\ op \in Transfers /\ status = "aborted" /\ link.chunkRaws = RawTries) =>
        (ret # UlSuccessRet(size) /\ ret # 0)

\* C21: whatever bank option the command line gave, the bank id in the high
\* byte of the second parameter of every LOADRAM/DUMPRAM frame is one of the
\* six banks 1..6, never 0.
C21_FrameBankIsReal ==
    (op \in Transfers /\ link.writes >= 1) =>
        (link.params[2][1] \in 1..6 /\ link.params[2][1] # 0)

====
